---------------------------- MODULE Spec2Model ----------------------------
(***************************************************************************)
(* A model of the spectrogram plugin of wavesurfer.js:                      *)
(*   src/src/plugins/lib.ts               the FFT class                     *)
(*   src/src/plugins/fast-spectrogram.ts  resample and SpectrogramPlugin    *)
(*                                                                         *)
(* Numbers.  A JavaScript number is modelled as a fixed-point integer in    *)
(* units of 1/One (One = 1024), or as the value NaN.  undefined, as read    *)
(* from a typed array or an array beyond its length, is the value Undef;    *)
(* arithmetic on Undef or NaN yields NaN, as ToNumber(undefined) is NaN.    *)
(* The library functions Math.cos, Math.sin, Math.pow, Math.log10 and       *)
(* Math.hypot are computed in that fixed point.  Zero, the integers and     *)
(* the sign of every value are exact; the low bits of a transcendental      *)
(* value are not.  Decibel values and byte values are integers.             *)
(***************************************************************************)
EXTENDS Integers, Sequences, FiniteSets, TLC

VARIABLES
    plugin,   \* the SpectrogramPlugin object: phase, fields, last error
    gf,       \* the activation of getFrequencies that is running, if any
    fft,      \* the FFT object (lib.ts) that getFrequencies or a caller holds
    quant,    \* a call of the quantization of getFrequencies, lines 729-739
    rsm,      \* a call of resample
    call      \* the last call a direct caller made on the FFT class

vars == <<plugin, gf, fft, quant, rsm, call>>

----------------------------------------------------------------------------
(* Fixed-point numbers *)

One == 2^10

NaN == -(2^30)

Undef == -(2^30) - 1

NegInf == -(2^30) + 1

PosInf == 2^30

IsNaN(x) == x = NaN \/ x = Undef

IsInf(x) == x = NegInf \/ x = PosInf

Abs(x) == IF x < 0 THEN -x ELSE x

Sign(x) == IF x < 0 THEN -1 ELSE IF x > 0 THEN 1 ELSE 0

\* Integer division that truncates toward zero, as a float-to-int conversion does.
TruncDiv(a, b) == Sign(a) * Sign(b) * (Abs(a) \div Abs(b))

\* a + b, a - b, a * b and a / b of two numbers
FAdd(a, b) ==
    IF IsNaN(a) \/ IsNaN(b) THEN NaN
    ELSE IF IsInf(a) /\ IsInf(b) THEN (IF a = b THEN a ELSE NaN)
    ELSE IF IsInf(a) THEN a
    ELSE IF IsInf(b) THEN b
    ELSE a + b

FNeg(a) ==
    IF IsNaN(a) THEN NaN
    ELSE IF a = PosInf THEN NegInf
    ELSE IF a = NegInf THEN PosInf
    ELSE -a

FSub(a, b) == FAdd(a, FNeg(b))

\* |a| * |b| / One and |a| * One / |b|, truncated, computed in pieces that stay
\* within 32 bits whenever the result does
MulPos(a, b) ==
    (a \div One) * b + (a % One) * (b \div One) + ((a % One) * (b % One)) \div One

DivPos(a, b) ==
    LET r1 == (a % b) * 32
        r2 == (r1 % b) * 32
    IN  (a \div b) * One + (r1 \div b) * 32 + (r2 \div b)

FMul(a, b) ==
    IF IsNaN(a) \/ IsNaN(b) THEN NaN
    ELSE IF IsInf(a) \/ IsInf(b)
         THEN (IF a = 0 \/ b = 0 THEN NaN
               ELSE IF Sign(a) * Sign(b) > 0 THEN PosInf ELSE NegInf)
    ELSE Sign(a) * Sign(b) * MulPos(Abs(a), Abs(b))

FDiv(a, b) ==
    IF IsNaN(a) \/ IsNaN(b) THEN NaN
    ELSE IF IsInf(a) /\ IsInf(b) THEN NaN
    ELSE IF IsInf(a) THEN (IF Sign(b) >= 0 THEN a ELSE FNeg(a))
    ELSE IF IsInf(b) THEN 0
    ELSE IF b = 0
         THEN (IF a = 0 THEN NaN ELSE IF a > 0 THEN PosInf ELSE NegInf)
    ELSE Sign(a) * Sign(b) * DivPos(Abs(a), Abs(b))

\* k * a and a / k for an integer constant k > 0 of the source
IntTimes(k, a) ==
    IF IsNaN(a) THEN NaN ELSE IF IsInf(a) THEN a ELSE k * a

IntOver(a, k) ==
    IF IsNaN(a) THEN NaN ELSE IF IsInf(a) THEN a ELSE TruncDiv(a, k)

\* the integer part of a number, as ToIntegerOrInfinity takes it (0 for NaN)
ToInteger(a) == IF IsNaN(a) THEN 0 ELSE IF IsInf(a) THEN a ELSE TruncDiv(a, One)

\* a < b and a > b of two numbers: false when either is NaN
FLess(a, b) == ~IsNaN(a) /\ ~IsNaN(b) /\ a < b

FGreater(a, b) == FLess(b, a)

\* The number n (an integer) as a fixed-point number
Num(n) == n * One

----------------------------------------------------------------------------
(* Library functions in fixed point *)

RECURSIVE ISqrtFrom(_, _)
\* Newton's iteration for the integer square root of n, from the guess r >= sqrt(n)
ISqrtFrom(n, r) ==
    LET next == (r + n \div r) \div 2
    IN  IF next >= r THEN r ELSE ISqrtFrom(n, next)

ISqrt(n) == IF n <= 0 THEN 0 ELSE ISqrtFrom(n, n)

\* Math.hypot(a, b): infinite when either is, else NaN when either is
MathHypot(a, b) ==
    IF IsInf(a) \/ IsInf(b) THEN PosInf
    ELSE IF IsNaN(a) \/ IsNaN(b) THEN NaN
    ELSE ISqrt(a * a + b * b)

\* Math.abs
MathAbs(a) == IF IsNaN(a) THEN NaN ELSE IF a = NegInf THEN PosInf ELSE Abs(a)

\* pi and log2(10), log10(2), log2(e) in fixed point
Pi == (355 * One) \div 113

Log2Of10 == (33219 * One) \div 10000

Log10Of2 == (30103 * One) \div 100000

Log2OfE == (14427 * One) \div 10000

Ln2 == (69315 * One) \div 100000

RECURSIVE TaylorSum(_, _, _, _)
\* sum of the series whose term k+1 is term k times x / (k+1), from term t at index k
TaylorSum(t, x, k, n) ==
    IF n = 0 \/ t = 0 THEN 0
    ELSE t + TaylorSum(TruncDiv(TruncDiv(t * x, One), k + 1), x, k + 1, n - 1)

\* floor(a / b) for b > 0
FloorDiv(a, b) == IF a >= 0 THEN a \div b ELSE -((-a + b - 1) \div b)

\* 2^z for a finite z: 2^floor(z) * e^(frac(z) * ln 2)
Pow2(z) ==
    LET ip   == FloorDiv(z, One)
        frac == z - ip * One
        m    == TaylorSum(One, TruncDiv(frac * Ln2, One), 0, 12)
    IN  IF ip >= 20 THEN PosInf
        ELSE IF ip >= 0 THEN m * (2^ip)
        ELSE IF ip < -20 THEN 0
        ELSE m \div (2^(-ip))

\* Math.pow(10, y)
Pow10(y) ==
    IF IsNaN(y) THEN NaN
    ELSE IF y = PosInf THEN PosInf
    ELSE IF y = NegInf THEN 0
    ELSE Pow2(TruncDiv(y * Log2Of10, One))

\* Math.pow(Math.E, y)
PowE(y) ==
    IF IsNaN(y) THEN NaN
    ELSE IF y = PosInf THEN PosInf
    ELSE IF y = NegInf THEN 0
    ELSE Pow2(TruncDiv(y * Log2OfE, One))

RECURSIVE Log2Bits(_, _)
\* the fraction bits of log2(x) for One <= x < 2 One, most significant first
Log2Bits(x, bit) ==
    IF bit = 0 THEN 0
    ELSE LET sq == (x * x) \div One
         IN  IF sq >= 2 * One
             THEN bit + Log2Bits(sq \div 2, bit \div 2)
             ELSE Log2Bits(sq, bit \div 2)

RECURSIVE Log2Pos(_, _)
\* log2(x) for a finite x > 0; ip counts the halvings and doublings done so far
Log2Pos(x, ip) ==
    IF x >= 2 * One THEN Log2Pos(x \div 2, ip + 1)
    ELSE IF x < One THEN Log2Pos(x * 2, ip - 1)
    ELSE ip * One + Log2Bits(x, One \div 2)

\* Math.log10(x): NaN for a negative x or NaN, -Infinity for 0
MathLog10(x) ==
    IF IsNaN(x) \/ (x < 0) THEN NaN
    ELSE IF x = 0 THEN NegInf
    ELSE IF x = PosInf THEN PosInf
    ELSE TruncDiv(Log2Pos(x, 0) * Log10Of2, One)

\* cos(x) for 0 <= x <= pi/2, by its series in x^2
CosSmall(x) ==
    LET x2 == (x * x) \div One
        t1 == -(x2 \div 2)
        t2 == -((t1 * x2) \div One) \div 12
        t3 == -((t2 * x2) \div One) \div 30
        t4 == -((t3 * x2) \div One) \div 56
    IN  One + t1 + t2 + t3 + t4

\* cos(pi * p / q) for integers p and q > 0; exact at the multiples of pi/2
CosPi(p, q) ==
    LET r  == p % (2 * q)                            \* the angle is pi * r / q, 0 <= r < 2q
        f  == IF r > q THEN 2 * q - r ELSE r         \* cos(2 pi - x) = cos(x)
        g  == IF 2 * f > q THEN q - f ELSE f         \* cos(pi - x) = -cos(x)
        c  == IF 2 * g = q THEN 0 ELSE CosSmall((Pi * g) \div q)
    IN  IF q = 0 THEN NaN
        ELSE IF 2 * f > q THEN -c ELSE c

\* sin(pi * p / q) = cos(pi * p / q - pi / 2)
SinPi(p, q) == IF q = 0 THEN NaN ELSE CosPi(2 * p - q, 2 * q)

----------------------------------------------------------------------------
(* Typed arrays: functions on 0..n-1.  A read outside the array is undefined, *)
(* a write outside it is ignored.                                             *)

NewArray(n) == [i \in 0..(n - 1) |-> 0]

Get(arr, i) == IF i \in DOMAIN arr THEN arr[i] ELSE Undef

\* a store into a Float32Array: undefined is stored as NaN
Put(arr, i, v) ==
    IF i \in DOMAIN arr THEN [arr EXCEPT ![i] = IF IsNaN(v) THEN NaN ELSE v] ELSE arr

ArrLen(arr) == Cardinality(DOMAIN arr)

\* TRUE.  The loops below test it on the arrays they carry: the comparison makes
\* TLC compute an array at each pass of a loop rather than all passes at the end.
Computed(x) == x = x

\* x || d for a number x: d when x is undefined, 0 or NaN
OrElse(x, d) == IF IsNaN(x) \/ x = 0 THEN d ELSE x

\* the decimal constant n/100
Hundredths(n) == (n * One) \div 100

----------------------------------------------------------------------------
(* class FFT, lib.ts *)

WindowNames ==
    {"bartlett", "bartlettHann", "blackman", "cosine", "gauss", "hamming",
     "hann", "lanczoz", "rectangular", "triangular"}

\* the name a caller leaves out: the switch of initWindowFunction sees undefined
NoName == "undefined"

\* windowValues[i] for a window of the switch, size n = bufferSize
WindowValue(windowFunc, alpha, n, i) ==
    LET n1   == Num(n - 1)
        half == FDiv(n1, Num(2))
        dist == MathAbs(FSub(Num(i), half))
        cos2 == IF n = 1 THEN NaN ELSE CosPi(2 * i, n - 1)
        cos4 == IF n = 1 THEN NaN ELSE CosPi(4 * i, n - 1)
    IN  CASE windowFunc = "bartlett" ->
               FMul(FDiv(Num(2), n1), FSub(half, dist))
          [] windowFunc = "bartlettHann" ->
               FSub(FSub(Hundredths(62),
                         FMul(Hundredths(48),
                              MathAbs(FSub(FDiv(Num(i), n1), Hundredths(50))))),
                    FMul(Hundredths(38), cos2))
          [] windowFunc = "blackman" ->
               LET a == OrElse(alpha, Hundredths(16))
               IN  FAdd(FSub(FDiv(FSub(One, a), Num(2)), FMul(Hundredths(50), cos2)),
                        FMul(FDiv(a, Num(2)), cos4))
          [] windowFunc = "cosine" ->
               IF n = 1 THEN NaN ELSE CosPi(2 * i - (n - 1), 2 * (n - 1))
          [] windowFunc = "gauss" ->
               LET a == OrElse(alpha, Hundredths(25))
                   z == FDiv(FSub(Num(i), half), FDiv(FMul(a, n1), Num(2)))
               IN  PowE(FMul(-Hundredths(50), FMul(z, z)))
          [] windowFunc = "hamming" ->
               FSub(Hundredths(54), FMul(Hundredths(46), cos2))
          [] windowFunc \in {"hann", NoName} ->
               FMul(Hundredths(50), FSub(One, cos2))
          [] windowFunc = "lanczoz" ->
               LET x == FSub(FDiv(Num(2 * i), n1), One)
               IN  FDiv(IF n = 1 THEN NaN ELSE SinPi(2 * i - (n - 1), n - 1),
                        FMul(Pi, x))
          [] windowFunc = "rectangular" -> One
          [] windowFunc = "triangular" ->
               FMul(FDiv(Num(2), Num(n)), FSub(FDiv(Num(n), Num(2)), dist))

\* initWindowFunction without the case 'triangular'
initWindowFunctionNoTriangular(windowFunc, alpha, bufferSize) ==
    IF windowFunc \in (WindowNames \ {"triangular"}) \cup {NoName}
    THEN [ok |-> TRUE,
          windowValues |-> [i \in 0..(bufferSize - 1) |->
                               WindowValue(windowFunc, alpha, bufferSize, i)]]
    ELSE [ok |-> FALSE, windowValues |-> NewArray(0)]

\* initWindowFunction: the window table, or the error of the default case
initWindowFunction(windowFunc, alpha, bufferSize) ==
    IF windowFunc \in WindowNames \cup {NoName}
    THEN [ok |-> TRUE,
          windowValues |-> [i \in 0..(bufferSize - 1) |->
                               WindowValue(windowFunc, alpha, bufferSize, i)]]
    ELSE [ok |-> FALSE, windowValues |-> NewArray(0)]

\* the for loop copying entry i to entry i + limit without adding bit
ReverseFillNoBit(table, limit, bit) ==
    [k \in DOMAIN table |->
        IF limit <= k /\ k < 2 * limit THEN table[k - limit] ELSE table[k]]

\* the for loop of initReverseBits for one value of limit (lines 102-104): entry
\* i + limit becomes entry i plus bit, for each i < limit.  The entries read lie
\* below limit and the entries written at or above it, so the loop's assignments
\* are independent and are made here at once; a write past the end is ignored.
ReverseFill(table, limit, bit) ==
    [k \in DOMAIN table |->
        IF limit <= k /\ k < 2 * limit THEN table[k - limit] + bit ELSE table[k]]

RECURSIVE ReverseLoop(_, _, _, _)
\* the while loop of initReverseBits
ReverseLoop(table, limit, bit, bufferSize) ==
    IF limit >= bufferSize THEN table
    ELSE ReverseLoop(ReverseFill(table, limit, bit), 2 * limit, bit \div 2, bufferSize)

initReverseBits(bufferSize) ==
    ReverseLoop(NewArray(bufferSize), 1, bufferSize \div 2, bufferSize)

\* initTrigTables: entry i is sin or cos of -pi/i; entry 0 is not a number
initTrigTables(bufferSize) ==
    [sinTable |-> [i \in 0..(bufferSize - 1) |-> SinPi(-1, i)],
     cosTable |-> [i \in 0..(bufferSize - 1) |-> CosPi(-1, i)]]

\* new FFT(bufferSize, sampleRate, windowFunc, alpha): the object, or the error thrown
NewFFT(bufferSize, windowFunc, alpha) ==
    LET w == initWindowFunction(windowFunc, alpha, bufferSize)
        t == initTrigTables(bufferSize)
    IN  IF ~w.ok
        THEN [ok |-> FALSE, error |-> "No such window function"]
        ELSE [ok |-> TRUE, error |-> "none",
              bufferSize   |-> bufferSize,
              sinTable     |-> t.sinTable,
              cosTable     |-> t.cosTable,
              windowValues |-> w.windowValues,
              reverseTable |-> initReverseBits(bufferSize),
              peak         |-> 0]

\* no FFT object
NoFFT == [ok |-> FALSE, error |-> "none"]

RECURSIVE WindowAndReorder(_, _, _, _)
\* lines 127-129: real[i] = buffer[reverseTable[i]] * windowValues[reverseTable[i]]
WindowAndReorder(f, buffer, real, i) ==
    IF i >= f.bufferSize \/ ~Computed(real) THEN real
    ELSE WindowAndReorder(f, buffer,
            Put(real, i, FMul(Get(buffer, f.reverseTable[i]),
                              Get(f.windowValues, f.reverseTable[i]))),
            i + 1)

RECURSIVE ButterfliesUpperOnly(_, _, _, _, _, _)
\* the butterflies without the assignments to real[off] and imag[off]
ButterfliesUpperOnly(ri, bufferSize, halfSize, cr, ci, i) ==
    IF i >= bufferSize \/ ~Computed(ri) THEN ri
    ELSE LET off == i + halfSize
             tr  == FSub(FMul(cr, Get(ri.real, off)), FMul(ci, Get(ri.imag, off)))
             ti  == FAdd(FMul(cr, Get(ri.imag, off)), FMul(ci, Get(ri.real, off)))
             r2  == Put(ri.real, i, FAdd(Get(ri.real, i), tr))
             i2  == Put(ri.imag, i, FAdd(Get(ri.imag, i), ti))
         IN  ButterfliesUpperOnly([real |-> r2, imag |-> i2], bufferSize, halfSize,
                                  cr, ci, i + 2 * halfSize)

RECURSIVE Butterflies(_, _, _, _, _, _)
\* lines 139-148: the butterflies of one fftStep, on ri = [real, imag]
Butterflies(ri, bufferSize, halfSize, cr, ci, i) ==
    IF i >= bufferSize \/ ~Computed(ri) THEN ri
    ELSE LET off == i + halfSize
             tr  == FSub(FMul(cr, Get(ri.real, off)), FMul(ci, Get(ri.imag, off)))
             ti  == FAdd(FMul(cr, Get(ri.imag, off)), FMul(ci, Get(ri.real, off)))
             r1  == Put(ri.real, off, FSub(Get(ri.real, i), tr))
             i1  == Put(ri.imag, off, FSub(Get(ri.imag, i), ti))
             r2  == Put(r1, i, FAdd(Get(r1, i), tr))
             i2  == Put(i1, i, FAdd(Get(i1, i), ti))
         IN  Butterflies([real |-> r2, imag |-> i2], bufferSize, halfSize, cr, ci,
                         i + 2 * halfSize)

RECURSIVE FftSteps(_, _, _, _, _, _, _, _)
\* lines 138-153: the loop over fftStep, with the phase shift (cr, ci) advanced by
\* the step (sr, si) after each
FftSteps(ri, bufferSize, halfSize, sr, si, cr, ci, fftStep) ==
    IF fftStep >= halfSize \/ ~Computed(<<ri, cr, ci>>) THEN ri
    ELSE FftSteps(Butterflies(ri, bufferSize, halfSize, cr, ci, fftStep),
                  bufferSize, halfSize, sr, si,
                  FSub(FMul(cr, sr), FMul(ci, si)),
                  FAdd(FMul(cr, si), FMul(ci, sr)),
                  fftStep + 1)

RECURSIVE MainLoopIndexBelow(_, _, _)
\* the loop over halfSize reading the tables one entry lower, at halfSize - 1
MainLoopIndexBelow(f, st, halfSize) ==
    IF halfSize >= f.bufferSize \/ ~Computed(st) THEN st
    ELSE MainLoopIndexBelow(f,
            [ri        |-> FftSteps(st.ri, f.bufferSize, halfSize,
                                    Get(f.cosTable, halfSize - 1),
                                    Get(f.sinTable, halfSize - 1),
                                    One, 0, 0),
             trigReads |-> st.trigReads \cup {halfSize - 1}],
            2 * halfSize)

RECURSIVE MainLoop(_, _, _)
\* lines 132-154: the loop over halfSize; trigReads collects the table indices read
MainLoop(f, st, halfSize) ==
    IF halfSize >= f.bufferSize \/ ~Computed(st) THEN st
    ELSE MainLoop(f,
            [ri        |-> FftSteps(st.ri, f.bufferSize, halfSize,
                                    Get(f.cosTable, halfSize), Get(f.sinTable, halfSize),
                                    One, 0, 0),
             trigReads |-> st.trigReads \cup {halfSize}],
            2 * halfSize)

RECURSIVE Magnitudes(_, _, _, _, _)
\* lines 157-164: the magnitude of each bin, and the running peak
Magnitudes(ri, bufferSize, out, n, i) ==
    IF i >= n \/ ~Computed(out) THEN out
    ELSE LET mag == FMul(FDiv(Num(2), Num(bufferSize)),
                         MathHypot(Get(ri.real, i), Get(ri.imag, i)))
         IN  Magnitudes(ri, bufferSize,
                [spectrum |-> Put(out.spectrum, i, mag),
                 peak     |-> IF FGreater(mag, out.peak) THEN mag ELSE out.peak],
                n, i + 1)

\* calculateSpectrum(buffer) on the FFT object f: the spectrum returned, the peak
\* the object holds afterwards, and the indices of the trig tables that were read
calculateSpectrum(f, buffer) ==
    LET real == WindowAndReorder(f, buffer, NewArray(f.bufferSize), 0)
        st   == MainLoop(f, [ri |-> [real |-> real, imag |-> NewArray(f.bufferSize)],
                             trigReads |-> {}], 1)
        n    == f.bufferSize \div 2
        out  == Magnitudes(st.ri, f.bufferSize,
                           [spectrum |-> NewArray(n), peak |-> f.peak], n, 0)
    IN  [spectrum |-> out.spectrum, peak |-> out.peak, trigReads |-> st.trigReads]

----------------------------------------------------------------------------
(* class SpectrogramPlugin, fast-spectrogram.ts: the constructor *)

\* the length a color map must have (lines 412, 427, 434) and the default table's
ColorMapSize == 256

\* the number of components of a color map entry (line 417)
EntrySize == 4

\* the defaults of lines 446, 456 and 457
DefaultFftSamples == 512

DefaultGainDB == 20

DefaultRangeDB == 80

\* x || d for a string option x: d when x is left out or empty
StrOrElse(x, d) == IF x \in {NoName, ""} THEN d ELSE x

\* A color table is modelled by its shape: the sequence of the numbers of
\* components of its entries.  The module's table colorMap (lines 4-261, roseus)
\* and the gray and igray tables built at lines 426-437 have ColorMapSize entries
\* of EntrySize components.
NamedTable == [i \in 1..ColorMapSize |-> EntrySize]

\* lines 412-420: the error an explicit table raises, or "none"
CheckTable(table) ==
    IF Len(table) < ColorMapSize THEN "Colormap must contain 256 elements"
    ELSE IF \E i \in 1..Len(table) : table[i] # EntrySize
         THEN "ColorMap entries must contain 4 values"
    ELSE "none"

\* lines 411-445: the color map the constructor keeps, or the error it throws,
\* for options.colorMap = cm, which is an explicit table (kind "table": an array,
\* truthy even when empty) or a name (kind "name": a string, or nothing).
BuildColorMap(cm) ==
    IF cm.kind = "table"
    THEN [error |-> CheckTable(cm.table), colorMap |-> cm.table]
    ELSE LET name == StrOrElse(cm.name, "roseus")
         IN  IF name \in {"gray", "igray", "roseus"}
             THEN [error |-> "none", colorMap |-> NamedTable]
             ELSE [error |-> "No such colormap", colorMap |-> <<>>]

\* lines 460-466: this.height with options.height left out; Math.min of a number
\* and itself is that number
Height(scale, fftSamples, numMelFilters) ==
    IF scale = "mel" THEN numMelFilters ELSE FDiv(Num(fftSamples), Num(2))

\* lines 408 and 446-466: the fields the constructor sets from the options o
\* (fftSamples, gainDB and rangeDB are integers, noverlap and numMelFilters numbers)
BuildFields(o) ==
    LET fftSamples == IF o.fftSamples = 0 THEN DefaultFftSamples ELSE o.fftSamples
    IN  [fftSamples    |-> fftSamples,
         noverlap      |-> OrElse(o.noverlap, FMul(Num(fftSamples), Hundredths(75))),
         windowFunc    |-> StrOrElse(o.windowFunc, "hann"),
         alpha         |-> o.alpha,
         gainDB        |-> IF o.gainDB = 0 THEN DefaultGainDB ELSE o.gainDB,
         rangeDB       |-> IF o.rangeDB = 0 THEN DefaultRangeDB ELSE o.rangeDB,
         scale         |-> StrOrElse(o.scale, "mel"),
         numMelFilters |-> OrElse(o.numMelFilters, FDiv(Num(fftSamples), Num(8))),
         splitChannels |-> o.splitChannels,
         canvasWidth   |-> o.canvasWidth,
         frequenciesDataUrl |-> o.frequenciesDataUrl,
         height        |-> Height(StrOrElse(o.scale, "mel"), fftSamples,
                                  OrElse(o.numMelFilters, FDiv(Num(fftSamples), Num(8))))]

\* the fields before the constructor has set them
NoFields ==
    [fftSamples |-> 0, noverlap |-> 0, windowFunc |-> NoName, alpha |-> Undef,
     gainDB |-> 0, rangeDB |-> 0, scale |-> NoName, numMelFilters |-> 0,
     splitChannels |-> FALSE, canvasWidth |-> 0,
     frequenciesDataUrl |-> NoName, height |-> 0]

\* every option left out: 0, NoName and Undef stand for an option that is not given
\* (canvasWidth is not an option: it is the width the canvas element has)
DefaultOptions ==
    [colorMap      |-> [kind |-> "name", name |-> NoName, table |-> <<>>],
     fftSamples    |-> 0,
     noverlap      |-> Undef,
     windowFunc    |-> NoName,
     alpha         |-> Undef,
     gainDB        |-> 0,
     rangeDB       |-> 0,
     scale         |-> NoName,
     numMelFilters |-> Undef,
     splitChannels |-> FALSE,
     canvasWidth   |-> 300,
     frequenciesDataUrl |-> NoName]

\* the plugin before new SpectrogramPlugin(options).  phase is "none", then
\* "constructed" or, when the constructor threw, "failed"; error is the message
\* of the last exception; wavesurfer says whether this.wavesurfer is set;
\* hasBuffer whether this.buffer is; frequenciesData is the variable of onInit
\* (line 485), <<>> while undefined, and computed counts the runs of
\* getFrequencies that returned.  options is this.options, which super(options)
\* sets at line 406 (SpectrogramPlugin.create passes {} for no options).
\* decoded and decodedData are what wavesurfer.getDecodedData() returns (lines
\* 487, 582); destroyed says that destroy ran on the attached plugin; redraws
\* counts the 'redraw' events handled and requests the calls of
\* loadFrequenciesData; pending is the number of those calls that wait for
\* their fetch, and loads the outcomes of those that ended; drawn is the matrix
\* the last complete run of drawSpectrogram painted and ready counts the
\* 'ready' events emitted.
NoPlugin ==
    [phase |-> "none", error |-> "none", options |-> DefaultOptions,
     colorMap |-> <<>>, f |-> NoFields,
     wavesurfer |-> FALSE, hasBuffer |-> FALSE, frequenciesData |-> <<>>,
     computed |-> 0,
     decoded |-> FALSE, decodedData |-> <<>>, destroyed |-> FALSE,
     redraws |-> 0, requests |-> 0, pending |-> 0, loads |-> <<>>,
     drawn |-> <<>>, ready |-> 0]

----------------------------------------------------------------------------
(* The mel filter bank, lines 652-690 *)

hzToMel(hz) == IntTimes(2595, MathLog10(FAdd(One, IntOver(hz, 700))))

melToHz(mel) == IntTimes(700, FSub(Pow10(IntOver(mel, 2595)), One))

\* melPoints[i] of createMelFilterBank, line 665
MelPoint(i, numMelFilters, sampleRate) ==
    LET melMin == hzToMel(0)
        melMax == hzToMel(IntOver(Num(sampleRate), 2))
    IN  melToHz(FAdd(melMin, FMul(FDiv(Num(i), FAdd(numMelFilters, One)),
                                  FSub(melMax, melMin))))

\* the length of Array.from({length: x}): ToLength(x)
ToLength(x) == IF IsNaN(x) \/ x <= 0 THEN 0 ELSE ToInteger(x)

\* whether n is an array length that Array(n) accepts: a non-negative integer
IsArrayLength(n) == ~IsNaN(n) /\ ~IsInf(n) /\ n >= 0 /\ n % One = 0

\* melFilterBank[i - 1][j] as lines 670-675 leave it, for 1 <= i <= numMelFilters
MelWeight(i, j, numMelFilters, sampleRate, fftSamples) ==
    LET freq == IntTimes(j, FDiv(Num(sampleRate), Num(fftSamples)))
        lo   == MelPoint(i - 1, numMelFilters, sampleRate)
        mid  == MelPoint(i, numMelFilters, sampleRate)
        hi   == MelPoint(i + 1, numMelFilters, sampleRate)
    IN  IF ~FLess(freq, lo) /\ ~FGreater(freq, mid)
        THEN FDiv(FSub(freq, lo), FSub(mid, lo))
        ELSE IF ~FLess(freq, mid) /\ ~FGreater(freq, hi)
        THEN FDiv(FSub(hi, freq), FSub(hi, mid))
        ELSE 0

\* createMelFilterBank throws the RangeError of Array(fftSamples / 2 + 1) when
\* fftSamples is odd, and only when there is a row to build (line 667)
MelBankThrows(numMelFilters, fftSamples) ==
    ToLength(numMelFilters) > 0
    /\ ~IsArrayLength(FAdd(IntOver(Num(fftSamples), 2), One))

\* createMelFilterBank: rows 0..ToLength(numMelFilters)-1 of fftSamples/2 + 1 weights
createMelFilterBank(numMelFilters, sampleRate, fftSamples) ==
    [r \in 0..(ToLength(numMelFilters) - 1) |->
        [j \in 0..(fftSamples \div 2) |->
            MelWeight(r + 1, j, numMelFilters, sampleRate, fftSamples)]]

RECURSIVE MelDot(_, _, _)
\* the inner loop of applyMelFilterBank, lines 685-687, for one filter row
MelDot(fftPoints, row, j) ==
    IF j >= ArrLen(fftPoints) THEN 0
    ELSE FAdd(FMul(Get(fftPoints, j), Get(row, j)), MelDot(fftPoints, row, j + 1))

\* applyMelFilterBank: one value per filter row
applyMelFilterBank(fftPoints, melFilterBank) ==
    [i \in DOMAIN melFilterBank |-> MelDot(fftPoints, melFilterBank[i], 0)]

----------------------------------------------------------------------------
(* Quantization, lines 729-739 *)

\* the conversion of a number stored into a Uint8Array
ToUint8(x) == IF IsNaN(x) \/ IsInf(x) THEN 0 ELSE TruncDiv(x, One) % 256

\* line 731
ValueDB(magnitude) == IntTimes(20, MathLog10(magnitude))

\* the branch of lines 732-738 taken for valueDB
QuantizeBranch(valueDB, gainDB, rangeDB) ==
    IF FLess(valueDB, Num(-rangeDB)) THEN "low"
    ELSE IF FGreater(valueDB, Num(-gainDB)) THEN "high"
    ELSE "mid"

\* the number assigned to array[j] at line 737
\* (the product by 255 is taken before the division, which loses nothing in
\* floating point and keeps the fixed-point quotient exact to 1/One)
MidRange(valueDB, gainDB, rangeDB) ==
    FAdd(FDiv(IntTimes(255, FAdd(valueDB, Num(gainDB))), Num(rangeDB)), Num(256))

\* the byte array[j] holds after lines 732-738
Quantize(valueDB, gainDB, rangeDB) ==
    LET branch == QuantizeBranch(valueDB, gainDB, rangeDB)
    IN  IF branch = "low" THEN 0
        ELSE IF branch = "high" THEN 255
        ELSE ToUint8(MidRange(valueDB, gainDB, rangeDB))

----------------------------------------------------------------------------
(* getFrequencies, lines 692-750 *)

\* channelData.slice(from, to) on a typed array: the indices are truncated, a
\* negative index counts from the end, and the result is empty when to <= from
Slice(arr, from, to) ==
    LET len   == ArrLen(arr)
        Rel(x) == LET k == ToInteger(x)
                  IN  IF k < 0 THEN (IF len + k < 0 THEN 0 ELSE len + k)
                      ELSE IF k > len THEN len ELSE k
        first == Rel(from)
        final == Rel(to)
        count == IF final > first THEN final - first ELSE 0
    IN  [i \in 0..(count - 1) |-> arr[first + i]]

\* lines 706-710: the overlap getFrequencies uses; the plugin's noverlap unless it
\* is 0 or NaN, and then derived from the buffer's length and the canvas width
EffectiveOverlap(noverlap, fftSamples, bufferLength, canvasWidth) ==
    IF IsNaN(noverlap) \/ noverlap = 0
    THEN LET uniqueSamplesPerPx == FDiv(Num(bufferLength), Num(canvasWidth))
             d == FSub(Num(fftSamples), uniqueSamplesPerPx)
             \* Math.round: the nearest integer, halves toward +Infinity
             rounded == IF IsNaN(d) \/ IsInf(d) THEN d
                        ELSE FloorDiv(d + One \div 2, One) * One
         IN  IF IsNaN(rounded) THEN NaN
             ELSE IF rounded < 0 THEN 0 ELSE rounded
    ELSE noverlap

\* line 694: (options.splitChannels ?? wavesurfer.options.splitChannels)
\*           ? buffer.numberOfChannels : 1
ChannelCount(splitChannels, buffer) ==
    IF splitChannels THEN buffer.numberOfChannels ELSE 1

\* lines 724-739: the byte column of one frame and the decibel value of each bin.
\* The column has trunc(fftSamples / 2) bytes; bin j reads spectrum[j], which is
\* undefined beyond the spectrum's length.
FrameColumn(spectrum, fftSamples, gainDB, rangeDB) ==
    LET bins == {j \in 0..fftSamples : 2 * j < fftSamples}
        db   == [j \in bins |-> ValueDB(Get(spectrum, j))]
    IN  [valueDB |-> db,
         array   |-> [j \in 0..((fftSamples \div 2) - 1) |->
                        Quantize(db[j], gainDB, rangeDB)]]

\* no activation of getFrequencies; caller is "decode" for the call of line 489
\* and "render" for the call of line 584
NoCall ==
    [active |-> FALSE, buffer |-> <<>>, channels |-> 0, noverlap |-> 0, c |-> 0,
     currentOffset |-> 0, channelFreq |-> <<>>, frequencies |-> <<>>,
     valueDB |-> <<>>, caller |-> "decode"]

\* whether the while loop of line 722 goes on
LoopCondition(g, fftSamples) ==
    FLess(FAdd(g.currentOffset, Num(fftSamples)),
          Num(ArrLen(g.buffer.channelData[g.c])))

----------------------------------------------------------------------------
(* Drawing and the fetched matrix, lines 515-522 and 576-650 *)

\* whether a string option is given and not empty (lines 577: if (url))
Truthy(x) == x \notin {NoName, ""}

\* An argument of new ImageData(sw, sh), line 609, is converted to an unsigned
\* long: NaN and the infinities become 0, a fraction is dropped, and a number
\* of -1 or less wraps to one above 2^31, which PosInf stands for.
ImageDataSide(x) ==
    IF IsNaN(x) \/ IsInf(x) THEN 0
    ELSE IF x <= -One THEN PosInf
    ELSE TruncDiv(x, One)

\* lines 608-621 for one channel: the exception the image of freqData raises, or
\* "none".  new ImageData throws for a side of 0; the pixel loop reads
\* freqData[i][j] for j below the image's height, and for a column that is
\* shorter this.colorMap[undefined] is undefined and colorMap[0] throws.
ChannelImageError(freqData, height) ==
    LET imgWidth  == Len(freqData)
        imgHeight == ImageDataSide(height)
    IN  IF imgWidth = 0 \/ imgHeight = 0 THEN "IndexSizeError"
        ELSE IF imgHeight = PosInf THEN "RangeError"
        ELSE IF \E i \in 1..imgWidth : ArrLen(freqData[i]) < imgHeight
             THEN "TypeError"
        ELSE "none"

\* drawSpectrogram(frequenciesData) on the plugin p, lines 590-650: the plugin
\* afterwards and how the call ended: "returned" at line 591, "threw" in the loop
\* of a channel, or "drawn" when it reached line 649 and emitted 'ready'.  (The
\* bitmaps are drawn and 'computed' is emitted later, in promise callbacks.)
drawSpectrogram(p, frequenciesData) ==
    IF ~p.wavesurfer \/ ~p.hasBuffer
    THEN [plugin |-> p, outcome |-> "returned", error |-> "none"]
    ELSE LET errs == [c \in 1..Len(frequenciesData) |->
                        ChannelImageError(frequenciesData[c], p.f.height)]
             bad  == {c \in 1..Len(frequenciesData) : errs[c] # "none"}
             c0   == CHOOSE c \in bad : \A d \in bad : c <= d
         IN  IF bad # {}
             THEN [plugin |-> [p EXCEPT !.error = errs[c0]],
                   outcome |-> "threw", error |-> errs[c0]]
             ELSE [plugin |-> [p EXCEPT !.drawn = frequenciesData, !.ready = @ + 1],
                   outcome |-> "drawn", error |-> "none"]

\* loadFrequenciesData(url) up to its first await, line 516: the fetch is sent
loadFrequenciesData(p) ==
    [p EXCEPT !.requests = @ + 1, !.pending = @ + 1]

\* the outcome of one call of loadFrequenciesData on the plugin p, which left the
\* plugin as after: how the fetch settled, whether the plugin was attached and
\* had a buffer, whether drawSpectrogram was called, how the call ended and with
\* which error, and the 'ready' events and waiting fetches it added
LoadEntry(p, resp, called, outcome, error, after) ==
    [kind |-> resp.kind, attached |-> p.wavesurfer, hasBuffer |-> p.hasBuffer,
     called |-> called, outcome |-> outcome, error |-> error,
     ready |-> after.ready - p.ready, pending |-> after.pending - p.pending]

\* loadFrequenciesData without the test of resp.ok, lines 517-519
loadFrequenciesDataUnchecked(p, resp) ==
    LET q == [p EXCEPT !.pending = @ - 1]
        d == drawSpectrogram(q, resp.data)
    IN  [d.plugin EXCEPT !.loads = Append(@, LoadEntry(p, resp, TRUE, d.outcome,
                                                      d.error, d.plugin))]

\* loadFrequenciesData from line 516 on, once its fetch has settled with resp:
\* kind "failed" is a fetch that rejected, "notok" a response that is not ok,
\* "unparsable" an ok response whose body is not JSON, and "ok" an ok response
\* with the matrix resp.data.  The promise of the call is rejected with the
\* error thrown, or fulfilled; the outcome is appended to loads.
loadFrequenciesDataSettled(p, resp) ==
    LET q == [p EXCEPT !.pending = @ - 1]
        rejected(error) ==
            [q EXCEPT !.loads = Append(@, LoadEntry(p, resp, FALSE, "rejected",
                                                   error, q))]
    IN  IF resp.kind = "failed" THEN rejected("Failed to fetch")
        ELSE IF resp.kind = "notok" THEN rejected("Unable to fetch frequencies data")
        ELSE IF resp.kind = "unparsable" THEN rejected("SyntaxError")
        ELSE LET d == drawSpectrogram(q, resp.data)
             IN  [d.plugin EXCEPT
                    !.loads = Append(@, LoadEntry(p, resp, TRUE,
                                     IF d.outcome = "threw" THEN "rejected"
                                                            ELSE d.outcome,
                                     d.error, d.plugin))]

\* getFrequencies(buffer) on the plugin p up to line 714, called from caller:
\* it keeps the buffer, builds the FFT object and the mel filter bank, and
\* throws what they throw.  The plugin, the FFT object (old when the
\* constructor threw) and the activation that goes on to the channel loop.
StartWith(p, old, new, buffer, caller) ==
    LET f == p.f
    IN  IF ~new.ok
        THEN [plugin |-> [p EXCEPT !.hasBuffer = TRUE, !.error = new.error],
              fft |-> old, gf |-> NoCall, threw |-> TRUE]
        ELSE IF MelBankThrows(f.numMelFilters, f.fftSamples)
        THEN [plugin |-> [p EXCEPT !.hasBuffer = TRUE,
                                   !.error = "Invalid array length"],
              fft |-> new, gf |-> NoCall, threw |-> TRUE]
        ELSE [plugin |-> [p EXCEPT !.hasBuffer = TRUE],
              fft |-> new,
              gf |-> [NoCall EXCEPT
                        !.active = TRUE, !.buffer = buffer, !.caller = caller,
                        !.channels = ChannelCount(f.splitChannels, buffer),
                        !.noverlap = EffectiveOverlap(f.noverlap, f.fftSamples,
                                                      buffer.length, f.canvasWidth)],
              threw |-> FALSE]

\* line 712: new FFT(fftSamples, sampleRate, this.windowFunc, this.alpha)
StartGetFrequencies(p, old, buffer, caller) ==
    StartWith(p, old, NewFFT(p.f.fftSamples, p.f.windowFunc, p.f.alpha), buffer, caller)

\* the plugin, the FFT object and the activation become those of the start r
Started(r) ==
    /\ plugin' = r.plugin
    /\ fft' = r.fft
    /\ IF r.threw THEN UNCHANGED gf ELSE gf' = r.gf

----------------------------------------------------------------------------
(* resample, lines 263-300 *)

(* Times are counted in units of 1/(oldHeight * width), in which oldPiece is   *)
(* width and newPiece is oldHeight: starts, ends and overlaps are whole        *)
(* numbers of units, and overlapPercent is the fraction overlap / newPiece,    *)
(* which a double holds to one part in 2^53 and the model holds exactly.       *)
(* column is a Float32Array, whose numbers have 24 significant bits: a number  *)
(* of it is <<whole, frac>>, frac counted in units of 1/F32Unit, and each +=   *)
(* rounds the sum to the nearest such number, a tie to the even one.           *)

F32Unit == 2^30

MathMax(a, b) == IF a >= b THEN a ELSE b

MathMin(a, b) == IF a <= b THEN a ELSE b

RECURSIVE FloorLog2(_)
\* the exponent of n >= 1: the largest e with 2^e <= n
FloorLog2(n) == IF n < 2 THEN 0 ELSE 1 + FloorLog2(n \div 2)

\* the float32 nearest to whole + frac / F32Unit (+ a little more when sticky);
\* numbers below 1/64, whose last bit lies below 1/F32Unit, are kept as they are
RoundF32(whole, frac, sticky) ==
    LET ulp  == IF whole >= 1 THEN 2^(FloorLog2(whole) + 7)
                ELSE IF frac >= 2^24 THEN 2^(FloorLog2(frac) - 23)
                ELSE 1
        low  == frac % ulp
        up   == \/ 2 * low > ulp
                \/ 2 * low = ulp /\ (sticky \/ (frac \div ulp) % 2 = 1)
        f    == frac - low + (IF up THEN ulp ELSE 0)
    IN  IF f >= F32Unit THEN <<whole + 1, f - F32Unit>> ELSE <<whole, f>>

\* column[k] += num / den for whole numbers num >= 0 and 0 < den < 2^15
\* (line 288: the sum, stored into the Float32Array)
F32AddFraction(col, num, den) ==
    LET r1   == (num % den) * 2^15
        r2   == (r1 % den) * 2^15
        frac == (r1 \div den) * 2^15 + r2 \div den
        sum  == col[2] + frac
    IN  RoundF32(col[1] + num \div den + sum \div F32Unit, sum % F32Unit,
                 r2 % den # 0)

\* the overlap of the next new column with old column j
OverlapNextColumn(i, j, oldHeight, width) ==
    MathMax(0, MathMin((j + 1) * width, (i + 2) * oldHeight)
               - MathMax(j * width, (i + 1) * oldHeight))

\* the whole of newPiece for every old column that overlaps new column i
OverlapWhole(i, j, oldHeight, width) ==
    IF MathMin((j + 1) * width, (i + 1) * oldHeight)
         > MathMax(j * width, i * oldHeight)
    THEN oldHeight ELSE 0

\* lines 267-281: the overlap of new column i with old column j
Overlap(i, j, oldHeight, width) ==
    LET oldPiece     == width
        newPiece     == oldHeight
        newStart     == i * newPiece
        newEnd       == newStart + newPiece
        oldStart     == j * oldPiece
        oldEnd       == oldStart + oldPiece
        overlapStart == MathMax(oldStart, newStart)
        overlapEnd   == MathMin(oldEnd, newEnd)
    IN  MathMax(0, overlapEnd - overlapStart)

RECURSIVE ColumnAfter(_, _, _, _, _, _)
\* lines 275-290: column[k] of new column i after the old columns j, j+1, ...
\* have been added to col; overlapPercent * oldColumn[k] is
\* overlap * oldColumn[k] / newPiece
ColumnAfter(oldMatrix, width, i, k, j, col) ==
    LET oldHeight == Len(oldMatrix)
        overlap   == Overlap(i, j, oldHeight, width)
    IN  IF j >= oldHeight \/ ~Computed(col) THEN col
        ELSE ColumnAfter(oldMatrix, width, i, k, j + 1,
                IF overlap > 0
                THEN F32AddFraction(col, overlap * Get(oldMatrix[j + 1], k), oldHeight)
                ELSE col)

\* lines 292-295: intColumn[m] = ~~column[m], stored in a Uint8Array
IntColumn(col) == col[1] % 256

\* resample(oldMatrix, width): oldMatrix is the sequence of the old columns,
\* each a Uint8Array, and the result the sequence of the width new ones
resample(oldMatrix, width) ==
    LET oldWidth == ArrLen(oldMatrix[1])
    IN  [i \in 1..width |->
            [m \in 0..(oldWidth - 1) |->
                IntColumn(ColumnAfter(oldMatrix, width, i - 1, m, 0, <<0, 0>>))]]

----------------------------------------------------------------------------
(* Bounds and inputs *)

\* the longest channel, in samples
MaxLen == 6

\* the most columns a channel's frame loop is followed for
MaxCols == 5

\* an all-zero channel and an impulse (1 at sample 0) of len samples
ZeroChannel(len) == [i \in 0..(len - 1) |-> 0]

ImpulseChannel(len) == [i \in 0..(len - 1) |-> IF i = 0 THEN One ELSE 0]

SampleRates == {8000}

\* the channels of a decoded audio of len samples: one or two channels
ChannelLists(len) ==
    { <<ZeroChannel(len)>>, <<ImpulseChannel(len)>>,
      <<ZeroChannel(len), ImpulseChannel(len)>> }

\* the decoded audio
AudioBuffers ==
    UNION { { [numberOfChannels |-> Len(chans), length |-> len, sampleRate |-> rate,
               channelData |-> [c \in 0..(Len(chans) - 1) |-> chans[c + 1]]] :
                chans \in ChannelLists(len), rate \in SampleRates } :
            len \in 0..MaxLen }

\* explicit color tables: n entries of EntrySize components, but for entry bad
\* (when bad is not 0), which has k
TableOf(n, bad, k) == [i \in 1..n |-> IF i = bad THEN k ELSE EntrySize]

ColorTables ==
    { TableOf(n, 0, EntrySize) : n \in {0, ColorMapSize - 1, ColorMapSize, ColorMapSize + 1} }
    \cup { TableOf(ColorMapSize, bad, k) : bad \in {1, ColorMapSize}, k \in {3, 5} }
    \cup { TableOf(ColorMapSize + 1, ColorMapSize + 1, 3) }

\* options.colorMap: left out, a name, or an explicit table
ColorMapOptions ==
    { [kind |-> "name", name |-> n, table |-> <<>>] :
        n \in {NoName, "gray", "igray", "roseus", "jet"} }
    \cup { [kind |-> "table", name |-> NoName, table |-> t] : t \in ColorTables }

\* the options a plugin is constructed with: every color map with the other
\* options left out, and the frame sizes, overlaps, window names, scales, filter
\* counts and gains under the default color map
OptionSets ==
    { [DefaultOptions EXCEPT !.colorMap = cm] : cm \in ColorMapOptions }
    \cup
    { [DefaultOptions EXCEPT !.fftSamples = n, !.noverlap = ov, !.windowFunc = w,
                             !.scale = sm[1], !.numMelFilters = sm[2],
                             !.splitChannels = sp, !.gainDB = g] :
        n  \in {2, 3, 4},
        ov \in {Undef, Num(1), Num(2), Num(5)},
        w  \in {NoName, "rectangular", "lanczos"},
        sm \in {<<"linear", Undef>>, <<NoName, Undef>>, <<NoName, Num(1)>>,
                 <<"mel", Num(3)>>},
        sp \in BOOLEAN,
        g  \in {0, -20} }

----------------------------------------------------------------------------
(* The plugin's operations *)

\* new SpectrogramPlugin(o), lines 405-470
Construct(o) ==
    /\ plugin.phase = "none"
    /\ LET cm == BuildColorMap(o.colorMap)
       IN  plugin' = IF cm.error # "none"
                     THEN [plugin EXCEPT !.phase = "failed", !.options = o,
                                         !.error = cm.error]
                     ELSE [plugin EXCEPT !.phase = "constructed", !.options = o,
                                         !.colorMap = cm.colorMap,
                                         !.f = BuildFields(o)]
    /\ UNCHANGED <<gf, fft, quant, rsm, call>>

\* onInit, lines 472-497, run once the plugin is registered with a wavesurfer
OnInit ==
    /\ plugin.phase = "constructed"
    /\ ~plugin.wavesurfer
    /\ ~plugin.destroyed
    /\ plugin' = [plugin EXCEPT !.wavesurfer = TRUE]
    /\ UNCHANGED <<gf, fft, quant, rsm, call>>

\* The 'decode' event with decoded audio (lines 486-491) calls getFrequencies,
\* which runs to line 714: it keeps the buffer, builds the FFT object and the mel
\* filter bank, and throws what they throw.  (The bank is a function of the
\* plugin's fields and the sample rate; Frame, which reads it, computes it.)  The model follows one decode per
\* plugin: a later one starts from the same fields with a new FFT object.
Decode(buffer) ==
    /\ plugin.phase = "constructed"
    /\ plugin.wavesurfer
    /\ ~gf.active
    /\ ~plugin.hasBuffer
    /\ Started(StartGetFrequencies([plugin EXCEPT !.decoded = TRUE,
                                                  !.decodedData = buffer],
                                   fft, buffer, "decode"))
    /\ UNCHANGED <<quant, rsm, call>>

\* One pass of the while loop, lines 722-744: the frame at currentOffset becomes a
\* byte column, and currentOffset moves on by fftSamples - noverlap.
Frame ==
    /\ gf.active
    /\ gf.c < gf.channels
    /\ LoopCondition(gf, plugin.f.fftSamples)
    /\ Len(gf.channelFreq) < MaxCols
    /\ LET f        == plugin.f
           segment  == Slice(gf.buffer.channelData[gf.c], gf.currentOffset,
                             FAdd(gf.currentOffset, Num(f.fftSamples)))
           result   == calculateSpectrum(fft, segment)
           bank     == createMelFilterBank(f.numMelFilters, gf.buffer.sampleRate,
                                           f.fftSamples)
           spectrum == IF f.scale = "mel"
                       THEN applyMelFilterBank(result.spectrum, bank)
                       ELSE result.spectrum
           column   == FrameColumn(spectrum, f.fftSamples, f.gainDB, f.rangeDB)
       IN  /\ fft' = [fft EXCEPT !.peak = result.peak]
           /\ gf' = [gf EXCEPT
                       !.channelFreq = Append(@, column.array),
                       !.valueDB = column.valueDB,
                       !.currentOffset = FAdd(@, FSub(Num(f.fftSamples), gf.noverlap))]
    /\ UNCHANGED <<plugin, quant, rsm, call>>

\* The while loop ends for channel c: line 745, and the next channel starts.
ChannelDone ==
    /\ gf.active
    /\ gf.c < gf.channels
    /\ ~LoopCondition(gf, plugin.f.fftSamples)
    /\ gf' = [gf EXCEPT !.frequencies = Append(@, gf.channelFreq),
                        !.channelFreq = <<>>, !.currentOffset = 0, !.c = @ + 1]
    /\ UNCHANGED <<plugin, fft, quant, rsm, call>>

\* getFrequencies returns (line 749).  The 'decode' handler keeps the result
\* in the variable of onInit (line 489); render keeps it in its own parameter
\* and draws it (lines 584-585).
Return ==
    /\ gf.active
    /\ gf.c >= gf.channels
    /\ plugin' = IF gf.caller = "render"
                 THEN drawSpectrogram([plugin EXCEPT !.computed = @ + 1],
                                      gf.frequencies).plugin
                 ELSE [plugin EXCEPT !.frequenciesData = gf.frequencies,
                                     !.computed = @ + 1]
    /\ gf' = [gf EXCEPT !.active = FALSE]
    /\ UNCHANGED <<fft, quant, rsm, call>>

NoQuant == [pc |-> "none"]

NoResample == [pc |-> "none"]

\* no call made on the FFT class yet
NoFFTCall ==
    [op |-> "none", calls |-> 0, bufferSize |-> 0, windowFunc |-> NoName,
     alpha |-> Undef, buffer |-> <<>>, spectrum |-> <<>>, trigReads |-> {}]

Init ==
    /\ plugin = NoPlugin
    /\ gf = NoCall
    /\ fft = NoFFT
    /\ quant = NoQuant
    /\ rsm = NoResample
    /\ call = NoFFTCall

Next ==
    \/ \E o \in OptionSets : Construct(o)
    \/ OnInit
    \/ \E buffer \in AudioBuffers : Decode(buffer)
    \/ Frame
    \/ ChannelDone
    \/ Return

Spec == Init /\ [][Next]_vars

----------------------------------------------------------------------------
(* The plugin with its events: decoding, redrawing, fetching, destroying *)

\* the most 'redraw' events followed
MaxRedraws == 2

\* the most calls of loadFrequenciesData followed
MaxFetches == 2

\* the lengths of the decoded audio: shorter than a frame, and MaxLen
RenderLengths == {2, MaxLen}

RenderBuffers ==
    { [numberOfChannels |-> 1, length |-> len, sampleRate |-> rate,
       channelData |-> [c \in {0} |-> ImpulseChannel(len)]] :
        len \in RenderLengths, rate \in SampleRates }

\* options.frequenciesDataUrl: left out, empty, or a URL
UrlOptions == {NoName, "", "frequencies.json"}

\* the options: linear scale (height fftSamples / 2), one sample of overlap
RenderOptionSets ==
    { [DefaultOptions EXCEPT !.fftSamples = n, !.noverlap = Num(1),
                             !.windowFunc = w, !.scale = "linear",
                             !.frequenciesDataUrl = u] :
        n \in {2, 4}, w \in {"rectangular", "lanczos"}, u \in UrlOptions }

\* a fetched column of two bytes
FetchedColumn(v) == [j \in 0..1 |-> v]

\* the matrices a fetch delivers: one channel of two columns, and one channel
\* without columns
FetchedMatrices ==
    { << <<FetchedColumn(255), FetchedColumn(0)>> >>, << <<>> >> }

\* the ways a fetch settles
Responses ==
    { [kind |-> "ok", data |-> m] : m \in FetchedMatrices }
    \cup { [kind |-> k, data |-> <<>>] : k \in {"notok", "failed", "unparsable"} }

\* The wavesurfer decodes audio before the plugin is registered: no handler of
\* the plugin runs, and getDecodedData() returns the audio from then on.
Load(buffer) ==
    /\ plugin.phase = "constructed"
    /\ ~plugin.wavesurfer
    /\ ~plugin.destroyed
    /\ ~plugin.decoded
    /\ plugin' = [plugin EXCEPT !.decoded = TRUE, !.decodedData = buffer]
    /\ UNCHANGED <<gf, fft, quant, rsm, call>>

\* The 'redraw' event, lines 493-495, calls render, lines 576-588.  The handler
\* is subscribed by onInit and dropped by destroy (super.destroy()).
Redraw ==
    /\ plugin.phase = "constructed"
    /\ plugin.wavesurfer
    /\ ~gf.active
    /\ plugin.redraws < MaxRedraws
    /\ Truthy(plugin.f.frequenciesDataUrl) => plugin.requests < MaxFetches
    /\ LET p == [plugin EXCEPT !.redraws = @ + 1]
       IN  IF Truthy(p.f.frequenciesDataUrl)
           THEN /\ plugin' = loadFrequenciesData(p)
                /\ UNCHANGED <<gf, fft>>
           ELSE IF p.frequenciesData # <<>>
           THEN /\ plugin' = drawSpectrogram(p, p.frequenciesData).plugin
                /\ UNCHANGED <<gf, fft>>
           ELSE IF p.decoded
           THEN Started(StartGetFrequencies(p, fft, p.decodedData, "render"))
           ELSE /\ plugin' = p
                /\ UNCHANGED <<gf, fft>>
    /\ UNCHANGED <<quant, rsm, call>>

\* plugin.loadFrequenciesData(url) called by the application, line 515
LoadFrequenciesData ==
    /\ plugin.phase = "constructed"
    /\ ~gf.active
    /\ plugin.requests < MaxFetches
    /\ plugin' = loadFrequenciesData(plugin)
    /\ UNCHANGED <<gf, fft, quant, rsm, call>>

\* The fetch of one waiting call of loadFrequenciesData settles and the call
\* runs on from line 516 to its end.
FetchSettles(resp) ==
    /\ plugin.pending > 0
    /\ ~gf.active
    /\ plugin' = loadFrequenciesDataSettled(plugin, resp)
    /\ UNCHANGED <<gf, fft, quant, rsm, call>>

\* destroy() on the attached plugin, lines 499-513
Destroy ==
    /\ plugin.phase = "constructed"
    /\ plugin.wavesurfer
    /\ ~gf.active
    /\ plugin' = [plugin EXCEPT !.wavesurfer = FALSE, !.destroyed = TRUE]
    /\ UNCHANGED <<gf, fft, quant, rsm, call>>

NextRender ==
    \/ \E o \in RenderOptionSets : Construct(o)
    \/ OnInit
    \/ \E buffer \in RenderBuffers : Load(buffer)
    \/ \E buffer \in RenderBuffers : Decode(buffer)
    \/ Frame
    \/ ChannelDone
    \/ Return
    \/ Redraw
    \/ LoadFrequenciesData
    \/ \E resp \in Responses : FetchSettles(resp)
    \/ Destroy

SpecRender == Init /\ [][NextRender]_vars

----------------------------------------------------------------------------
(* resample called on its own *)

\* the most columns of a matrix given to resample, and the largest width asked
MaxColumns == 6

\* the most rows (bytes of a column)
MaxRows == 2

\* the bytes row 0 of a column holds; row k holds that byte plus 155 k, modulo 256
ByteValues == {0, 100, 255}

ByteColumns(rows) ==
    { [k \in 0..(rows - 1) |-> (v + 155 * k) % 256] : v \in ByteValues }

ByteMatrices ==
    UNION { [1..cols -> ByteColumns(rows)] : cols \in 1..MaxColumns, rows \in 1..MaxRows }

InitResample ==
    /\ plugin = NoPlugin
    /\ gf = NoCall
    /\ fft = NoFFT
    /\ quant = NoQuant
    /\ call = NoFFTCall
    /\ rsm \in { [pc |-> "start", oldMatrix |-> m, width |-> w, newMatrix |-> <<>>] :
                   m \in ByteMatrices, w \in 1..MaxColumns }

\* the call resample(oldMatrix, width) and its return
Resample ==
    /\ rsm.pc = "start"
    /\ rsm' = [rsm EXCEPT !.pc = "done",
                          !.newMatrix = resample(rsm.oldMatrix, rsm.width)]
    /\ UNCHANGED <<plugin, gf, fft, quant, call>>

NextResample == Resample

SpecResample == InitResample /\ [][NextResample]_vars

----------------------------------------------------------------------------
(* The quantization of lines 729-739 on its own *)

\* this.gainDB and this.rangeDB
GainValues == {20, -20}

RangeValues == {80, 40}

\* how far around -rangeDB and -gainDB the decibel values are taken
Margin == 2

\* the values of valueDB: the whole decibels around the two thresholds, and the
\* -Infinity of a zero magnitude
DBValues(gainDB, rangeDB) ==
    { Num(d) : d \in ((-rangeDB - Margin)..(-rangeDB + Margin))
                     \cup ((-gainDB - Margin)..(-gainDB + Margin)) }
    \cup {NegInf}

InitQuant ==
    /\ plugin = NoPlugin
    /\ gf = NoCall
    /\ fft = NoFFT
    /\ rsm = NoResample
    /\ call = NoFFTCall
    /\ quant \in UNION { { [pc |-> "start", gainDB |-> g, rangeDB |-> r,
                            a |-> a, b |-> b, byteA |-> 0, byteB |-> 0] :
                              a \in DBValues(g, r), b \in DBValues(g, r) } :
                         g \in GainValues, r \in RangeValues }

\* lines 732-738 for two bins whose valueDB are a and b
QuantizePair ==
    /\ quant.pc = "start"
    /\ quant' = [quant EXCEPT
                   !.pc = "done",
                   !.byteA = Quantize(quant.a, quant.gainDB, quant.rangeDB),
                   !.byteB = Quantize(quant.b, quant.gainDB, quant.rangeDB)]
    /\ UNCHANGED <<plugin, gf, fft, rsm, call>>

NextQuant == QuantizePair

SpecQuant == InitQuant /\ [][NextQuant]_vars

----------------------------------------------------------------------------
(* The FFT class used on its own *)

\* the largest bufferSize an FFT object is asked for
MaxBufferSize == 16

\* the calls of calculateSpectrum followed on one FFT object
MaxCalls == 2

\* the windowFunc arguments: the names of the switch, none, and names it lacks
WindowArguments == WindowNames \cup {NoName, "lanczos", "kaiser", ""}

\* the buffers given to calculateSpectrum: silence, an impulse and a ramp
RampChannel(len) == [i \in 0..(len - 1) |-> (i * One) \div len]

BufferKinds == {"silence", "impulse", "ramp"}

FFTBuffer(kind, len) ==
    CASE kind = "silence" -> ZeroChannel(len)
      [] kind = "impulse" -> ImpulseChannel(len)
      [] kind = "ramp"    -> RampChannel(len)

InitFFT ==
    /\ plugin = NoPlugin
    /\ gf = NoCall
    /\ fft = NoFFT
    /\ quant = NoQuant
    /\ rsm = NoResample
    /\ call = NoFFTCall

\* new FFT(bufferSize, sampleRate, windowFunc, alpha), lines 9-22
FFTConstruct(bufferSize, windowFunc, alpha) ==
    /\ call.op = "none"
    /\ fft' = NewFFT(bufferSize, windowFunc, alpha)
    /\ call' = [call EXCEPT !.op = "new", !.bufferSize = bufferSize,
                            !.windowFunc = windowFunc, !.alpha = alpha]
    /\ UNCHANGED <<plugin, gf, quant, rsm>>

\* fft.calculateSpectrum(buffer), lines 118-167, with a buffer of bufferSize samples
FFTCalculate(kind) ==
    /\ call.op # "none"
    /\ fft.ok
    /\ call.calls < MaxCalls
    /\ LET buffer == FFTBuffer(kind, fft.bufferSize)
           result == calculateSpectrum(fft, buffer)
       IN  /\ fft' = [fft EXCEPT !.peak = result.peak]
           /\ call' = [call EXCEPT !.op = "calculateSpectrum", !.calls = @ + 1,
                                   !.buffer = buffer,
                                   !.spectrum = result.spectrum,
                                   !.trigReads = result.trigReads]
    /\ UNCHANGED <<plugin, gf, quant, rsm>>

NextFFT ==
    \/ \E bufferSize \in 0..MaxBufferSize, windowFunc \in WindowArguments :
          FFTConstruct(bufferSize, windowFunc, Undef)
    \/ \E kind \in BufferKinds : FFTCalculate(kind)

SpecFFT == InitFFT /\ [][NextFFT]_vars

----------------------------------------------------------------------------
(* The claims *)

\* C1: quantization is monotonic non-decreasing and yields bytes: under one
\* gainDB and rangeDB, for two decibel values a < b (the thresholds -rangeDB and
\* -gainDB included) the byte stored for a is at most the byte stored for b, and
\* both bytes are in 0..255.
C1_QuantizationMonotonic ==
    quant.pc = "done" =>
        /\ quant.byteA \in 0..255
        /\ quant.byteB \in 0..255
        /\ FLess(quant.a, quant.b) => quant.byteA <= quant.byteB

\* C2: only a trailing partial frame is dropped: a channel of L samples with
\* frame size N and step s = N - overlap >= 1 yields floor((L - N) / s) + 1
\* columns when L >= N; a channel of exactly N samples yields one column.
C2_FullFramesCounted ==
    \A i \in 1..Len(gf.frequencies) :
        LET L == ArrLen(gf.buffer.channelData[i - 1])
            N == plugin.f.fftSamples
            s == FSub(Num(N), gf.noverlap)
        IN  (s >= One /\ L >= N) =>
                Len(gf.frequencies[i]) = FloorDiv(Num(L - N), s) + 1

\* C3: an overlap of at least the frame size is rejected before any frame is
\* computed: the frame loop never computes a frame while the overlap is not
\* below the frame size (the step not positive).
C3_OverlapRejected ==
    Len(gf.channelFreq) > 0 => FLess(gf.noverlap, Num(plugin.f.fftSamples))

\* C4: the overlap getFrequencies uses is the configured one when an overlap is
\* configured, and otherwise max(0, round(frameSize - totalSamples / W)) for the
\* display width W.
C4_OverlapFromWidth ==
    gf.active =>
        gf.noverlap =
            IF plugin.options.noverlap = Undef
            THEN EffectiveOverlap(Undef, plugin.f.fftSamples, gf.buffer.length,
                                  plugin.f.canvasWidth)
            ELSE plugin.options.noverlap

IsPowerOfTwo(n) == \E k \in 0..30 : n = 2^k

\* C5: building an FFT object fails for every size that is not a positive power
\* of two, and succeeds for every power of two >= 2 with a window name of the
\* switch (or none).
C5_FrameSizeChecked ==
    call.op = "new" =>
        /\ ~IsPowerOfTwo(call.bufferSize) => ~fft.ok
        /\ (IsPowerOfTwo(call.bufferSize) /\ call.bufferSize >= 2
            /\ call.windowFunc \in WindowNames \cup {NoName}) => fft.ok

C6_SpecNames ==
    {"bartlett", "bartlettHann", "blackman", "cosine", "gauss", "hamming",
     "hann", "lanczos", "rectangular", "triangular"}

C6_CodeNames ==
    {"bartlett", "bartlettHann", "blackman", "cosine", "gauss", "hamming",
     "hann", "lanczoz", "rectangular", "triangular"}

\* C6 as the specification states it: building an FFT object succeeds for the ten
\* names bartlett, bartlettHann, blackman, cosine, gauss, hamming, hann, lanczos,
\* rectangular, triangular and for no name, and fails for every other name.
C6_SpecNamesClosed ==
    call.op = "new" => (fft.ok <=> call.windowFunc \in C6_SpecNames \cup {NoName})

\* C6, amended: building an FFT object succeeds for the ten names bartlett,
\* bartlettHann, blackman, cosine, gauss, hamming, hann, lanczoz, rectangular,
\* triangular, and for no name, which gives the hann window; for every other
\* name, "lanczos" among them, it fails with "No such window function".
C6_WindowNamesClosed ==
    call.op = "new" =>
        /\ fft.ok <=> call.windowFunc \in C6_CodeNames \cup {NoName}
        /\ ~fft.ok => fft.error = "No such window function"
        /\ (fft.ok /\ call.windowFunc = NoName) =>
              fft.windowValues =
                  [i \in 0..(call.bufferSize - 1) |->
                      WindowValue("hann", call.alpha, call.bufferSize, i)]

\* a window name of the specification that the switch lacks was asked for, and
\* the constructor threw
C6_Witness ==
    /\ call.op = "new"
    /\ call.windowFunc = "lanczos"
    /\ call.bufferSize = 4
    /\ ~fft.ok
    /\ fft.error = "No such window function"

IsExactTable(t) == Len(t) = 256 /\ \A i \in 1..Len(t) : t[i] = 4

\* C7: construction with an explicit color table succeeds if and only if the
\* table has exactly 256 entries of exactly 4 components each, and the color map
\* a constructed plugin holds has exactly 256 entries of 4 components.
C7_ExactColorTable ==
    /\ (plugin.phase # "none" /\ plugin.options.colorMap.kind = "table") =>
          (plugin.phase = "constructed"
              <=> IsExactTable(plugin.options.colorMap.table))
    /\ plugin.phase = "constructed" => IsExactTable(plugin.colorMap)

\* C8: resampling to the width the matrix already has is the identity up to
\* truncation: resample(matrix, C) for a matrix of C >= 1 columns returns C
\* columns, and each cell is at most the input's cell and at most 1 below it.
C8_ResampleIdentity ==
    (rsm.pc = "done" /\ rsm.width = Len(rsm.oldMatrix)) =>
        /\ Len(rsm.newMatrix) = Len(rsm.oldMatrix)
        /\ \A c \in 1..Len(rsm.oldMatrix) :
              /\ DOMAIN rsm.newMatrix[c] = DOMAIN rsm.oldMatrix[c]
              /\ \A r \in DOMAIN rsm.oldMatrix[c] :
                    /\ rsm.newMatrix[c][r] <= rsm.oldMatrix[c][r]
                    /\ rsm.oldMatrix[c][r] - rsm.newMatrix[c][r] <= 1

\* a matrix of several columns that holds a 255 was resampled to its own width
C8_Witness ==
    /\ rsm.pc = "done"
    /\ Len(rsm.oldMatrix) >= 3
    /\ rsm.width = Len(rsm.oldMatrix)
    /\ \E c \in 1..Len(rsm.oldMatrix) : rsm.oldMatrix[c][0] = 255
    /\ rsm.newMatrix = rsm.oldMatrix

RECURSIVE ExactSum(_, _, _, _, _)
\* C times the area-weighted sum for cell (o, r): the overlap of [o/W, (o+1)/W)
\* with [c/C, (c+1)/C), in units of 1/(C W), times in[c][r], over the columns
\* c, c+1, ... (the weight of column c is that overlap divided by C)
ExactSum(in, W, o, r, c) ==
    LET C  == Len(in)
        hi == MathMin((c + 1) * W, (o + 1) * C)
        lo == MathMax(c * W, o * C)
    IN  IF c >= C THEN 0
        ELSE MathMax(0, hi - lo) * in[c + 1][r] + ExactSum(in, W, o, r, c + 1)

\* the truncation of the area-weighted sum for cell (o, r)
ExactCell(in, W, o, r) == ExactSum(in, W, o, r, 0) \div Len(in)

\* resample returned width columns of as many rows as the input's columns have
ResampleShape ==
    /\ Len(rsm.newMatrix) = rsm.width
    /\ \A o \in 1..rsm.width : DOMAIN rsm.newMatrix[o] = DOMAIN rsm.oldMatrix[1]

C10_SilenceIsZero ==
    (/\ gf.active
     /\ Len(gf.channelFreq) > 0
     /\ gf.buffer.channelData[gf.c] = ZeroChannel(gf.buffer.length)) =>
        /\ plugin.error = "none"
        /\ \A k \in 1..Len(gf.channelFreq) :
              \A j \in DOMAIN gf.channelFreq[k] : gf.channelFreq[k][j] = 0
        /\ \A j \in DOMAIN gf.valueDB :
              /\ ~IsNaN(gf.valueDB[j])
              /\ QuantizeBranch(gf.valueDB[j], plugin.f.gainDB, plugin.f.rangeDB) = "low"

\* the finite values a sine or cosine table is filled with to vary the twiddle factors
TwiddleValues == {0, One, -One, One \div 2, 3 * One}

\* the FFT object f with both trig tables holding v at every index
WithTwiddles(f, v) ==
    [f EXCEPT !.sinTable = [i \in DOMAIN f.sinTable |-> v],
              !.cosTable = [i \in DOMAIN f.cosTable |-> v]]

\* C11: for a power-of-two size N >= 2 and the rectangular window,
\* calculateSpectrum of the impulse (1 at sample 0, 0 elsewhere) returns N/2
\* bins that all have the magnitude 2/N, whatever finite values the sine and
\* cosine tables hold.
C11_ImpulseIsFlat ==
    (/\ call.op = "calculateSpectrum"
     /\ call.windowFunc = "rectangular"
     /\ IsPowerOfTwo(call.bufferSize) /\ call.bufferSize >= 2
     /\ call.buffer = ImpulseChannel(call.bufferSize)) =>
        LET N    == call.bufferSize
            flat == [i \in 0..(N \div 2 - 1) |-> FDiv(Num(2), Num(N))]
        IN  /\ call.spectrum = flat
            /\ \A v \in TwiddleValues :
                  calculateSpectrum(WithTwiddles(fft, v), call.buffer).spectrum = flat

\* the impulse of 8 samples was transformed under the rectangular window
C11_Witness ==
    /\ call.op = "calculateSpectrum"
    /\ call.windowFunc = "rectangular"
    /\ call.bufferSize = 8
    /\ call.buffer = ImpulseChannel(8)
    /\ call.spectrum = [i \in 0..3 |-> One \div 4]

\* C12: with options.frequenciesDataUrl configured the FFT calculation is left
\* out: whatever 'decode' and 'redraw' events arrive, no FFT object is built,
\* getFrequencies is not running and has never returned, and what is drawn is a
\* fetched matrix.
C12_UrlOmitsFFT ==
    Truthy(plugin.f.frequenciesDataUrl) =>
        /\ fft = NoFFT
        /\ ~gf.active
        /\ plugin.computed = 0
        /\ plugin.drawn # <<>> => plugin.drawn \in FetchedMatrices

\* C13: every call of loadFrequenciesData that obtained its matrix on an
\* attached plugin drew it and emitted 'ready', also when no audio was decoded
\* and getFrequencies never ran.
C13_FetchedIsDrawn ==
    \A i \in 1..Len(plugin.loads) :
        LET l == plugin.loads[i]
        IN  (l.kind = "ok" /\ l.attached) => (l.outcome = "drawn" /\ l.ready = 1)

\* C14: a call of loadFrequenciesData whose response is not ok ends rejected
\* with the error 'Unable to fetch frequencies data', does not call
\* drawSpectrogram, emits no 'ready' and sends no further fetch: it only leaves
\* the waiting calls, and every call of loadFrequenciesData is waiting or has
\* ended once.
C14_NotOkIsRejected ==
    /\ \A i \in 1..Len(plugin.loads) :
          LET l == plugin.loads[i]
          IN  l.kind = "notok" =>
                /\ l.outcome = "rejected"
                /\ l.error = "Unable to fetch frequencies data"
                /\ ~l.called
                /\ l.ready = 0
                /\ l.pending = -1
    /\ plugin.requests = plugin.pending + Len(plugin.loads)

\* a response that is not ok reached an attached plugin that has a buffer and a
\* computed matrix, after a 'redraw' under a configured URL
C14_Witness ==
    /\ Truthy(plugin.f.frequenciesDataUrl)
    /\ plugin.redraws > 0
    /\ \E i \in 1..Len(plugin.loads) :
          /\ plugin.loads[i].kind = "notok"
          /\ plugin.loads[i].attached
          /\ plugin.loads[i].hasBuffer

\* C15: a channel that is empty or shorter than one frame makes getFrequencies
\* fail: once the loop of such a channel has ended, an error has been raised
\* and no matrix was added for the channel.
C15_ShortChannelFails ==
    \A c \in 0..(gf.channels - 1) :
        (gf.c > c /\ ArrLen(gf.buffer.channelData[c]) < plugin.f.fftSamples) =>
            /\ plugin.error # "none"
            /\ Len(gf.frequencies) <= c

\* C16: calculateSpectrum leaves every field of the FFT object as the
\* constructor set it, the peak included: after any calls the object equals the
\* one new FFT(bufferSize, sampleRate, windowFunc, alpha) built.
C16_PlanUnchanged ==
    (call.op # "none" /\ fft.ok) =>
        fft = NewFFT(call.bufferSize, call.windowFunc, call.alpha)

\* the powers of two from 1 to n
PowersOfTwoUpTo(n) == {k \in 1..n : IsPowerOfTwo(k)}

\* C17: for a power-of-two size N >= 2 the main loop of calculateSpectrum reads
\* the sine and cosine tables only at powers of two from 1 to N / 2: index 0,
\* whose entries are not numbers, is never read, and every entry read is a number.
C17_TrigReadsArePowersOfTwo ==
    (/\ call.op = "calculateSpectrum"
     /\ IsPowerOfTwo(call.bufferSize) /\ call.bufferSize >= 2) =>
        /\ call.trigReads \subseteq PowersOfTwoUpTo(call.bufferSize \div 2)
        /\ 0 \notin call.trigReads
        /\ \A k \in call.trigReads :
              ~IsNaN(fft.sinTable[k]) /\ ~IsNaN(fft.cosTable[k])

\* a frame of 8 samples was transformed, reading the tables at 1, 2 and 4, and
\* the entries at index 0 are not numbers
C17_Witness ==
    /\ call.op = "calculateSpectrum"
    /\ call.bufferSize = 8
    /\ call.trigReads = {1, 2, 4}
    /\ IsNaN(fft.sinTable[0]) /\ IsNaN(fft.cosTable[0])

RECURSIVE BitReverse(_, _)
\* the number whose bits binary digits are those of i in reverse order
BitReverse(i, bits) ==
    IF bits = 0 THEN 0
    ELSE (i % 2) * (2 ^ (bits - 1)) + BitReverse(i \div 2, bits - 1)

\* C18: for a power-of-two size N >= 2 the table of initReverseBits is a
\* permutation of 0..N-1 whose entry i is i with its log2(N) bits reversed; it
\* is its own inverse, and the reordering step, which reads sample
\* reverseTable[i] for each i, reads every sample exactly once.
C18_ReverseTableIsBitReversal ==
    (/\ call.op # "none" /\ fft.ok
     /\ IsPowerOfTwo(fft.bufferSize) /\ fft.bufferSize >= 2) =>
        LET N     == fft.bufferSize
            table == fft.reverseTable
        IN  /\ DOMAIN table = 0..(N - 1)
            /\ {table[i] : i \in 0..(N - 1)} = 0..(N - 1)
            /\ \A i \in 0..(N - 1) :
                  /\ table[i] = BitReverse(i, FloorLog2(N))
                  /\ table[table[i]] = i
            /\ \A k \in 0..(N - 1) :
                  Cardinality({i \in 0..(N - 1) : table[i] = k}) = 1

\* an FFT object of 8 samples holds the table 0 4 2 6 1 5 3 7
C18_Witness ==
    /\ call.op # "none" /\ fft.ok
    /\ fft.bufferSize = 8
    /\ fft.reverseTable = [i \in 0..7 |-> <<0, 4, 2, 6, 1, 5, 3, 7>>[i + 1]]

=============================================================================
